---- MODULE Spec2Model ----
(***************************************************************************)
(* AVL tree with step logging (src/avl_tree/avl.py).                       *)
(*                                                                         *)
(* A Node object is the tuple <<value, left, right, height>>; an absent    *)
(* child (None) is the empty tuple.  The recursive helpers _insert and     *)
(* _delete mutate Node objects in place and only re-link a subtree into    *)
(* its parent when they return, while _snapshot copies the tree from       *)
(* self.root in the middle of the recursion.  The model therefore carries  *)
(* the path from self.root to the node being processed (ctx): what         *)
(* self.root shows at any instant is that path with the current state of   *)
(* the object the parent still points to plugged in.                       *)
(***************************************************************************)
EXTENDS Integers, Sequences, FiniteSets, TLC

VARIABLES root, last_action, logs, steps, found, call, prev, keys, net,
          step_mode, step_mode_checkbox, step_index, should_rerun, pc, reruns

\* The session of app.py around the tree: st.session_state.step_mode,
\* .step_index and .should_rerun, the state of the checkbox widget, where
\* the script stands (pc) and how many reruns the last user event has caused.
uivars == <<step_mode, step_mode_checkbox, step_index, should_rerun, pc, reruns>>

vars == <<root, last_action, logs, steps, found, call, prev, keys, net, uivars>>

\* Keys the operations are called with: 1..MaxKey.
MaxKey == 7

Keys == 1..MaxKey

Max(a, b) == IF a >= b THEN a ELSE b

-----------------------------------------------------------------------------
(* node.py: Node(value, left=None, right=None, height=1) *)

Nil == <<>>

Node(value, left, right, height) == <<value, left, right, height>>

NewNode(key) == Node(key, Nil, Nil, 1)

Val(n) == n[1]

Left(n) == n[2]

Right(n) == n[3]

Hgt(n) == n[4]

-----------------------------------------------------------------------------
(* avl.py: helper functions *)

get_height(node) == IF node # Nil THEN Hgt(node) ELSE 0

\* update_height as a bug would have it: the node itself is not counted.
update_height_nocount(node) ==
    Node(Val(node), Left(node), Right(node),
         Max(get_height(Left(node)), get_height(Right(node))))

\* The node with its height field recomputed from its children's fields.
update_height(node) ==
    Node(Val(node), Left(node), Right(node),
         1 + Max(get_height(Left(node)), get_height(Right(node))))

\* get_balance as a bug would have it: right minus left.
get_balance_swapped(node) ==
    IF node = Nil THEN 0
    ELSE get_height(Right(node)) - get_height(Left(node))

get_balance(node) ==
    IF node = Nil THEN 0
    ELSE get_height(Left(node)) - get_height(Right(node))

RECURSIVE _count(_)
_count(n) == IF n = Nil THEN 0 ELSE 1 + _count(Left(n)) + _count(Right(n))

count_nodes(tree) == _count(tree)

-----------------------------------------------------------------------------------------------------------------------------------------------------
(* avl.py: rotations.  Each returns the two objects it mutates: `top`, the *)
(* returned new local root, and `old`, the state of the argument object    *)
(* after the call (the object every outside reference still points to).    *)

\* The end of right_rotate as a bug would have it: x is returned without
\* its height recomputed.
RightRelink_stale(x, y1) ==
    [top |-> Node(Val(x), Left(x), y1, Hgt(x)), old |-> y1]

\* Lines 46 and 50-53: x.right = y; update_height(x); return x, where y1 is
\* y after "y.left = T2; update_height(y)".
RightRelink(x, y1) ==
    [top |-> update_height(Node(Val(x), Left(x), y1, Hgt(x))), old |-> y1]

right_rotate(y) ==
    RightRelink(Left(y),
                update_height(Node(Val(y), Right(Left(y)), Right(y), Hgt(y))))

\* Lines 60 and 64-67: y.left = x; update_height(y); return y, where x1 is
\* x after "x.right = T2; update_height(x)".
LeftRelink(y, x1) ==
    [top |-> update_height(Node(Val(y), x1, Right(y), Hgt(y))), old |-> x1]

\* left_rotate as a bug would have it: the height of x, now the lower node,
\* is not recomputed.
left_rotate_stale(x) ==
    LeftRelink(Right(x), Node(Val(x), Left(x), Left(Right(x)), Hgt(x)))

left_rotate(x) ==
    LeftRelink(Right(x),
               update_height(Node(Val(x), Left(x), Left(Right(x)), Hgt(x))))

-----
(* visualize.py: the graph of a tree.  A graph node carries the label      *)
(* (value, h, b) and the list of the graph nodes it has an edge to, left   *)
(* child first; a single child's side is not recorded.  The empty tree     *)
(* gives the placeholder graph.                                            *)

EmptyGraph == <<>>

RECURSIVE _add_nodes_edges(_)
_add_nodes_edges(node) ==
    LET balance == (IF Left(node) # Nil THEN Hgt(Left(node)) ELSE 0)
                   - (IF Right(node) # Nil THEN Hgt(Right(node)) ELSE 0)
        l == IF Left(node) # Nil THEN <<_add_nodes_edges(Left(node))>> ELSE <<>>
        r == IF Right(node) # Nil THEN <<_add_nodes_edges(Right(node))>> ELSE <<>>
    IN  <<Val(node), Hgt(node), balance, l \o r>>

tree_to_graphviz(tree) ==
    IF tree = Nil THEN EmptyGraph ELSE _add_nodes_edges(tree)

-----------------------------------------------------------------------------
(* avl.py: _snapshot.  ctx is the sequence of frames <<side, parent>> from *)
(* self.root down to the position being processed; Plug gives the tree     *)
(* self.root shows when the object at that position is in state t.         *)

RECURSIVE Plug(_, _)
Plug(ctx, t) ==
    IF ctx = <<>> THEN t
    ELSE LET f == ctx[Len(ctx)]
             p == f[2]
             q == IF f[1] = "L" THEN Node(Val(p), t, Right(p), Hgt(p))
                                ELSE Node(Val(p), Left(p), t, Hgt(p))
         IN  Plug(SubSeq(ctx, 1, Len(ctx) - 1), q)

\* copy.deepcopy of a tree value is the same value held apart.
deepcopy(tree) == tree

_snapshot(desc, self_root) ==
    [desc |-> desc, graph |-> tree_to_graphviz(deepcopy(self_root))]

-----------------------------------------------------------------------------------------------------------------------------------------------------
(* avl.py: what one level of _insert / _delete returns is [ret, logs,      *)
(* steps]: the subtree root it returns and the log lines and snapshots it  *)
(* appended, in order.                                                     *)

\* node.left = child  /  node.right = child
SetLeft(node, child) == Node(Val(node), child, Right(node), Hgt(node))

SetRight(node, child) == Node(Val(node), Left(node), child, Hgt(node))

\* The order of a level's entries as a bug would have it: what the level
\* itself appended comes before what its recursive call appended.
Then_ownfirst(sub, own) ==
    [ret |-> own.ret, logs |-> own.logs \o sub.logs, steps |-> own.steps \o sub.steps]

\* A level that first recursed (sub) and then ran its own statements (own).
Then(sub, own) ==
    [ret |-> own.ret, logs |-> sub.logs \o own.logs, steps |-> sub.steps \o own.steps]

\* A single-rotation case as a bug would have it: the snapshot taken after
\* the rotation is described by the key of the node rotated, not by the key
\* of the node returned.
SingleCase_oldkey(node, ctx, at, r, line, before, after) ==
    [ret   |-> r.top,
     logs  |-> <<at, <<line, Val(node)>>>>,
     steps |-> <<_snapshot(<<before, Val(node)>>, Plug(ctx, node)),
                 _snapshot(<<after, Val(node)>>, Plug(ctx, r.old))>>]

\* A single-rotation case: log line, snapshot, node = rotate(node), snapshot,
\* return node.  r is the rotation's result; self.root still reaches the old
\* object (r.old), which is re-linked only when the caller assigns the result.
SingleCase(node, ctx, at, r, line, before, after) ==
    [ret   |-> r.top,
     logs  |-> <<at, <<line, Val(node)>>>>,
     steps |-> <<_snapshot(<<before, Val(node)>>, Plug(ctx, node)),
                 _snapshot(<<after, Val(r.top)>>, Plug(ctx, r.old))>>]

\* A double-rotation case: mid is node after its child was rotated and
\* assigned back (that assignment is visible from self.root), r the result
\* of the rotation of node itself.
DoubleEmit(node, ctx, at, mid, r, line, before, between, after) ==
    [ret   |-> r.top,
     logs  |-> <<at, <<line, Val(node)>>>>,
     steps |-> <<_snapshot(<<before, Val(node)>>, Plug(ctx, node)),
                 _snapshot(<<between, Val(mid)>>, Plug(ctx, mid)),
                 _snapshot(<<after, Val(r.top)>>, Plug(ctx, r.old))>>]

\* The LR case as a bug would have it: the left child is not rotated first,
\* node alone is rotated right.
LRCase_single(node, ctx, at, mid, line, before) ==
    SingleCase(node, ctx, at, right_rotate(node), line, before,
               "After right-rotation at")

\* node.left = self.left_rotate(node.left); node = self.right_rotate(node)
LRCase(node, ctx, at, mid, line, before) ==
    DoubleEmit(node, ctx, at, mid, right_rotate(mid), line, before,
               "After left-rotation of left child of", "After right-rotation at")

\* node.right = self.right_rotate(node.right); node = self.left_rotate(node)
RLCase(node, ctx, at, mid, line, before) ==
    DoubleEmit(node, ctx, at, mid, left_rotate(mid), line, before,
               "After right-rotation of right child of", "After left-rotation at")

NoCase(node, at) == [ret |-> node, logs |-> <<at>>, steps |-> <<>>]

AtNode(node, balance) == <<"At node", Val(node), Hgt(node), balance>>

-----------------------------------------------------------------------------
(* avl.py: insert *)

\* Lines 99-135 of _insert: the four cases, first match wins.
InsertCases(node, balance, key, ctx) ==
    IF balance > 1 /\ key < Val(Left(node)) THEN
        SingleCase(node, ctx, AtNode(node, balance), right_rotate(node),
                   "Right Rotation (LL) at node",
                   "LL case before rotation at", "After Right Rotation at")
    ELSE IF balance < -1 /\ key > Val(Right(node)) THEN
        SingleCase(node, ctx, AtNode(node, balance), left_rotate(node),
                   "Left Rotation (RR) at node",
                   "RR case before rotation at", "After Left Rotation at")
    ELSE IF balance > 1 /\ key > Val(Left(node)) THEN
        LRCase(node, ctx, AtNode(node, balance),
               SetLeft(node, left_rotate(Left(node)).top),
               "Left-Right Rotation (LR) at node", "LR case before rotations at")
    ELSE IF balance < -1 /\ key < Val(Right(node)) THEN
        RLCase(node, ctx, AtNode(node, balance),
               SetRight(node, right_rotate(Right(node)).top),
               "Right-Left Rotation (RL) at node", "RL case before rotations at")
    ELSE NoCase(node, AtNode(node, balance))

\* Lines 94-97 of _insert: update_height(node); balance = get_balance(node).
InsertBalance(node, key, ctx) == InsertCases(node, get_balance(node), key, ctx)

\* _insert as a bug would have it: heights are refreshed on the way up but
\* no rotation case is ever taken.
InsertRebalance_norotate(linked, key, ctx) ==
    NoCase(update_height(linked),
           AtNode(update_height(linked), get_balance(update_height(linked))))

\* Lines 94-135 of _insert; linked is node with the recursive result assigned.
InsertRebalance(linked, key, ctx) == InsertBalance(update_height(linked), key, ctx)

InsertLeft(node, key, ctx, sub) ==
    Then(sub, InsertRebalance(SetLeft(node, sub.ret), key, ctx))

InsertRight(node, key, ctx, sub) ==
    Then(sub, InsertRebalance(SetRight(node, sub.ret), key, ctx))

\* The duplicate branch as a bug would have it: a fresh node is returned
\* for the key, as in the branch for an absent position.
Duplicate_fresh(node, key) ==
    [ret   |-> NewNode(key),
     logs  |-> <<<<"Key already present; ignoring.", key>>>>,
     steps |-> <<>>]

\* Lines 90-92 of _insert: the key is at node.
Duplicate(node, key) ==
    [ret   |-> node,
     logs  |-> <<<<"Key already present; ignoring.", key>>>>,
     steps |-> <<>>]

RECURSIVE _insert(_, _, _)
_insert(node, key, ctx) ==
    IF node = Nil THEN
        [ret   |-> NewNode(key),
         logs  |-> <<<<"Created node", key>>>>,
         steps |-> <<_snapshot(<<"Inserted", key>>, Plug(ctx, Nil))>>]
    ELSE IF key < Val(node) THEN
        InsertLeft(node, key, ctx, _insert(Left(node), key, Append(ctx, <<"L", node>>)))
    ELSE IF key > Val(node) THEN
        InsertRight(node, key, ctx, _insert(Right(node), key, Append(ctx, <<"R", node>>)))
    ELSE Duplicate(node, key)

\* insert's result as a bug would have it: the steps do not hold copies but
\* the live tree, so each shows the tree as the call leaves it.
InsertResult_live(r, key) ==
    [root  |-> r.ret,
     logs  |-> <<<<"Insert", key>>>> \o r.logs,
     steps |-> [i \in 1..Len(r.steps) |->
                   [desc |-> r.steps[i].desc, graph |-> tree_to_graphviz(r.ret)]]]

InsertResult(r, key) ==
    [root |-> r.ret, logs |-> <<<<"Insert", key>>>> \o r.logs, steps |-> r.steps]

\* insert(key) on the tree whose root is self_root: the new self.root and
\* the returned {"logs", "steps"}.
insert(self_root, key) == InsertResult(_insert(self_root, key, <<>>), key)

-----------------------------------------------------------------------------
(* avl.py: delete *)

\* _min_value_node as a bug would have it: the loop to the leftmost node is
\* missing, so the right child itself is taken for the successor.
_min_value_node_here(node) == node

RECURSIVE _min_value_node(_)
_min_value_node(node) ==
    IF Left(node) # Nil THEN _min_value_node(Left(node)) ELSE node

\* Lines 196-231 of _delete: the four cases, first match wins.
DeleteCases(node, balance, ctx) ==
    IF balance > 1 /\ get_balance(Left(node)) >= 0 THEN
        SingleCase(node, ctx, AtNode(node, balance), right_rotate(node),
                   "Right Rotation (LL) at node",
                   "LL rebalance before at", "After Right Rotation at")
    ELSE IF balance > 1 /\ get_balance(Left(node)) < 0 THEN
        LRCase(node, ctx, AtNode(node, balance),
               SetLeft(node, left_rotate(Left(node)).top),
               "Left-Right Rotation (LR) at node", "LR rebalance before at")
    ELSE IF balance < -1 /\ get_balance(Right(node)) <= 0 THEN
        SingleCase(node, ctx, AtNode(node, balance), left_rotate(node),
                   "Left Rotation (RR) at node",
                   "RR rebalance before at", "After Left Rotation at")
    ELSE IF balance < -1 /\ get_balance(Right(node)) > 0 THEN
        RLCase(node, ctx, AtNode(node, balance),
               SetRight(node, right_rotate(Right(node)).top),
               "Right-Left Rotation (RL) at node", "RL rebalance before at")
    ELSE NoCase(node, AtNode(node, balance))

\* Lines 190-192 of _delete.
DeleteBalance(node, ctx) == DeleteCases(node, get_balance(node), ctx)

\* Lines 186-231 of _delete; linked is node with the recursive result
\* assigned (a Node, so the "if not node" of line 186 never returns).
DeleteRebalance(linked, ctx) == DeleteBalance(update_height(linked), ctx)

DeleteLeft(node, ctx, sub) ==
    Then(sub, DeleteRebalance(SetLeft(node, sub.ret), ctx))

DeleteRight(node, ctx, sub) ==
    Then(sub, DeleteRebalance(SetRight(node, sub.ret), ctx))

\* Lines 169-170: the log line and the snapshot of the matched node.
Found(node, ctx) ==
    [ret   |-> node,
     logs  |-> <<<<"Found node for deletion", Val(node)>>>>,
     steps |-> <<_snapshot(<<"Deleting", Val(node)>>, Plug(ctx, node))>>]

\* The one-child splice as a bug would have it: None is returned in place
\* of the node, so the child's subtree is lost with it.
Splice_drop(node, child, line) ==
    [ret |-> Nil, logs |-> <<<<line, Val(node)>>>>, steps |-> <<>>]

\* Lines 171-178: return the only child (or None) in place of node.
Splice(node, child, line) ==
    [ret |-> child, logs |-> <<<<line, Val(node)>>>>, steps |-> <<>>]

\* The overwrite as a bug would have it: the node keeps its own key, so the
\* recursive delete looks for that key in the right subtree.
Overwrite_keep(node, temp) ==
    [ret   |-> node,
     logs  |-> <<<<"In-order successor is", Val(temp)>>>>,
     steps |-> <<>>]

\* Lines 182-183: node.value = temp.value, with its log line.
Overwrite(node, temp) ==
    [ret   |-> Node(Val(temp), Left(node), Right(node), Hgt(node)),
     logs  |-> <<<<"In-order successor is", Val(temp)>>>>,
     steps |-> <<>>]

\* The not-found branch as a bug would have it: it records a snapshot, as
\* the branch of a found key does.
NotFound_snap(key, ctx) ==
    [ret   |-> Nil,
     logs  |-> <<<<"Key not found.", key>>>>,
     steps |-> <<_snapshot(<<"Deleting", key>>, Plug(ctx, Nil))>>]

\* Lines 160-162 of _delete: the search ran off the tree.
NotFound(key, ctx) ==
    [ret |-> Nil, logs |-> <<<<"Key not found.", key>>>>, steps |-> <<>>]

RECURSIVE _delete(_, _, _)

\* Line 184 and on: over is node carrying its successor's key.
DeleteSuccessor(over, ctx) ==
    DeleteRight(over, ctx,
                _delete(Right(over), Val(over), Append(ctx, <<"R", over>>)))

TwoChildren(ctx, o) == Then(o, DeleteSuccessor(o.ret, ctx))

_delete(node, key, ctx) ==
    IF node = Nil THEN NotFound(key, ctx)
    ELSE IF key < Val(node) THEN
        DeleteLeft(node, ctx, _delete(Left(node), key, Append(ctx, <<"L", node>>)))
    ELSE IF key > Val(node) THEN
        DeleteRight(node, ctx, _delete(Right(node), key, Append(ctx, <<"R", node>>)))
    ELSE IF Left(node) = Nil THEN
        Then(Found(node, ctx),
             Splice(node, Right(node),
                    "Node has no left child, replace with right child"))
    ELSE IF Right(node) = Nil THEN
        Then(Found(node, ctx),
             Splice(node, Left(node),
                    "Node has no right child, replace with left child"))
    ELSE
        Then(Found(node, ctx),
             TwoChildren(ctx, Overwrite(node, _min_value_node(Right(node)))))

DeleteResult(r, key) ==
    [root |-> r.ret, logs |-> <<<<"Delete", key>>>> \o r.logs, steps |-> r.steps]

delete(self_root, key) == DeleteResult(_delete(self_root, key, <<>>), key)

-----
(* avl.py: search *)

\* _search as a bug would have it: the two descents are exchanged.
RECURSIVE _search_flipped(_, _)
_search_flipped(node, key) ==
    IF node = Nil THEN FALSE
    ELSE IF key = Val(node) THEN TRUE
    ELSE IF key < Val(node) THEN _search_flipped(Right(node), key)
    ELSE _search_flipped(Left(node), key)

RECURSIVE _search(_, _)
_search(node, key) ==
    IF node = Nil THEN FALSE
    ELSE IF key = Val(node) THEN TRUE
    ELSE IF key < Val(node) THEN _search(Left(node), key)
    ELSE _search(Right(node), key)

search(self_root, key) == _search(self_root, key)

-----------------------------------------------------------------------------
(* The tree object and its caller.  root and last_action are the fields of *)
(* the AVLTree.  call names the last public call and prev is self.root as  *)
(* it was when that call was made; logs, steps and found are what that     *)
(* call returned: the two lists of an insert or delete (a search returns   *)
(* none) and the boolean of a search (FALSE after any other call).  keys   *)
(* is the set of integers the calls so far describe, and net counts the    *)
(* inserts that added a key less the deletes that removed one.             *)

Init ==
    /\ root = Nil
    /\ last_action = <<>>
    /\ logs = <<>>
    /\ steps = <<>>
    /\ found = FALSE
    /\ call = <<"new">>
    /\ prev = Nil
    /\ keys = {}
    /\ net = 0
    /\ step_mode = FALSE
    /\ step_mode_checkbox = FALSE
    /\ step_index = 0
    /\ should_rerun = FALSE
    /\ pc = "idle"
    /\ reruns = 0

Returned(r) == root' = r.root /\ logs' = r.logs /\ steps' = r.steps

Insert(k) ==
    /\ Returned(insert(root, k))
    /\ last_action' = <<"Insert", k>>
    /\ call' = <<"insert", k>>
    /\ prev' = root
    /\ keys' = keys \cup {k}
    /\ net' = IF k \in keys THEN net ELSE net + 1
    /\ found' = FALSE
    /\ UNCHANGED uivars

Delete(k) ==
    /\ Returned(delete(root, k))
    /\ last_action' = <<"Delete", k>>
    /\ call' = <<"delete", k>>
    /\ prev' = root
    /\ keys' = keys \ {k}
    /\ net' = IF k \in keys THEN net - 1 ELSE net
    /\ found' = FALSE
    /\ UNCHANGED uivars

Search(k) ==
    /\ found' = search(root, k)
    /\ call' = <<"search", k>>
    /\ prev' = root
    /\ logs' = <<>>
    /\ steps' = <<>>
    /\ UNCHANGED <<root, last_action, keys, net, uivars>>

Next ==
    \/ \E k \in Keys : Insert(k)
    \/ \E k \in Keys : Delete(k)
    \/ \E k \in Keys : Search(k)

Spec == Init /\ [][Next]_vars

-----------------------------------------------------------------------------
(* What the properties below speak of. *)

\* The true height of a tree, counted from its shape.
RECURSIVE Height(_)
Height(t) == IF t = Nil THEN 0 ELSE 1 + Max(Height(Left(t)), Height(Right(t)))

RECURSIVE InOrder(_)
InOrder(t) ==
    IF t = Nil THEN <<>> ELSE InOrder(Left(t)) \o <<Val(t)>> \o InOrder(Right(t))

RECURSIVE TreeKeys(_)
TreeKeys(t) ==
    IF t = Nil THEN {} ELSE {Val(t)} \cup TreeKeys(Left(t)) \cup TreeKeys(Right(t))

StrictlyIncreasing(s) == \A i \in 1..(Len(s) - 1) : s[i] < s[i + 1]

\* Every node of t has subtrees whose true heights differ by at most one.
RECURSIVE Balanced(_)
Balanced(t) ==
    \/ t = Nil
    \/ /\ Height(Left(t)) - Height(Right(t)) \in {-1, 0, 1}
       /\ Balanced(Left(t))
       /\ Balanced(Right(t))

\* Every node of t has smaller keys to its left and larger ones to its right.
RECURSIVE Ordered(_)
Ordered(t) ==
    \/ t = Nil
    \/ /\ \A k \in TreeKeys(Left(t)) : k < Val(t)
       /\ \A k \in TreeKeys(Right(t)) : k > Val(t)
       /\ Ordered(Left(t))
       /\ Ordered(Right(t))

\* Every node's height field is one more than the larger of its children's.
RECURSIVE HeightsCached(_)
HeightsCached(t) ==
    \/ t = Nil
    \/ /\ Hgt(t) = 1 + Max(get_height(Left(t)), get_height(Right(t)))
       /\ HeightsCached(Left(t))
       /\ HeightsCached(Right(t))

\* The keys on the nodes of a graph, one entry per graph node.
RECURSIVE GraphKeys(_)
GraphKeys(g) ==
    IF g = EmptyGraph THEN <<>>
    ELSE <<g[1]>>
         \o (IF Len(g[4]) >= 1 THEN GraphKeys(g[4][1]) ELSE <<>>)
         \o (IF Len(g[4]) >= 2 THEN GraphKeys(g[4][2]) ELSE <<>>)

GraphKeySet(g) == {GraphKeys(g)[i] : i \in 1..Len(GraphKeys(g))}

\* A graph read as a search tree with all keys strictly between lo and hi: a
\* node with two edges has its left child first; a node with one edge may have
\* that child on either side.
RECURSIVE GraphOrdered(_, _, _)
GraphOrdered(g, lo, hi) ==
    \/ g = EmptyGraph
    \/ /\ lo < g[1]
       /\ g[1] < hi
       /\ CASE Len(g[4]) = 0 -> TRUE
            [] Len(g[4]) = 1 -> \/ GraphOrdered(g[4][1], lo, g[1])
                                \/ GraphOrdered(g[4][1], g[1], hi)
            [] OTHER -> /\ GraphOrdered(g[4][1], lo, g[1])
                        /\ GraphOrdered(g[4][2], g[1], hi)

HasLog(line) == \E i \in 1..Len(logs) : logs[i] = line

RotationLines ==
    {"Right Rotation (LL) at node", "Left Rotation (RR) at node",
     "Left-Right Rotation (LR) at node", "Right-Left Rotation (RL) at node"}

RotationLogged == \E i \in 1..Len(logs) : logs[i][1] \in RotationLines

\* The descriptions of the snapshots taken after a rotation.
AfterDescs ==
    {"After Right Rotation at", "After Left Rotation at",
     "After left-rotation of left child of", "After right-rotation at",
     "After right-rotation of right child of", "After left-rotation at"}

Inserting == call[1] = "insert"

Deleting == call[1] = "delete"

-----------------------------------------------------------------------------
\* C1: after any sequence of insert and delete calls from the empty tree,
\* every node of the tree has subtrees whose true heights differ by at most 1.
C1_BalanceInvariant == Balanced(root)

\* A delete that rebalanced with a double rotation has returned.
C1_Witness ==
    /\ Deleting
    /\ \E k \in Keys : HasLog(<<"Right-Left Rotation (RL) at node", k>>)
    /\ count_nodes(root) >= 6

\* C2: after any sequence of insert and delete calls from the empty tree, the
\* in-order traversal is strictly increasing: every node has only smaller keys
\* in its left subtree and only larger ones in its right subtree.
C2_OrderInvariant == StrictlyIncreasing(InOrder(root)) /\ Ordered(root)

\* A delete of a node with two children, through its successor, has returned.
C2_Witness ==
    /\ Deleting
    /\ \E k \in Keys : HasLog(<<"In-order successor is", k>>)
    /\ count_nodes(root) >= 4

\* C3: after any sequence of insert and delete calls from the empty tree,
\* every node's height field is 1 + max of its children's height fields (0 for
\* an absent child), so the root's field is the true height of the tree.
C3_HeightCacheInvariant == HeightsCached(root) /\ get_height(root) = Height(root)

\* An insert that rebalanced with a double rotation has left a tree of height 3.
C3_Witness ==
    /\ Inserting
    /\ \E k \in Keys : HasLog(<<"Left-Right Rotation (LR) at node", k>>)
    /\ get_height(root) = 3

\* C4: search(k) is true exactly for the keys inserted and not deleted since;
\* it is true right after insert(k), false right after delete(k), and a search
\* call returns that value.
C4_SearchIsMembership ==
    /\ \A k \in Keys : search(root, k) <=> k \in keys
    /\ Inserting => search(root, call[2])
    /\ Deleting => ~search(root, call[2])
    /\ call[1] = "search" => (found <=> call[2] \in keys)

\* A search found a key below the root after an earlier key had been deleted.
C4_Witness ==
    /\ call[1] = "search"
    /\ found
    /\ call[2] # Val(root)
    /\ \E k \in Keys : k \notin keys /\ k < call[2]
    /\ net >= 4

\* C5: the snapshot an insert of a new key records as "Inserted k" holds
\* key k, and is not the empty graph when the tree was empty before the call.
C5_InsertedSnapshotHasKey ==
    \A i \in 1..Len(steps) :
        steps[i].desc[1] = "Inserted"
            => /\ steps[i].desc[2] \in GraphKeySet(steps[i].graph)
               /\ steps[i].graph # EmptyGraph

\* C6: every snapshot recorded after a rotation holds every key of the tree
\* at that instant (the keys the call leaves in the tree, since each rotation
\* runs once the key has been linked in or spliced out) and has as many graph
\* nodes as the tree has nodes.
C6_AfterSnapshotIsWholeTree ==
    \A i \in 1..Len(steps) :
        steps[i].desc[1] \in AfterDescs
            => /\ GraphKeySet(steps[i].graph) = TreeKeys(root)
               /\ Len(GraphKeys(steps[i].graph)) = count_nodes(root)

\* C7: every snapshot of a call is a search tree: its in-order key sequence is
\* strictly increasing and no key is on two of its nodes.
C7_SnapshotsOrdered ==
    \A i \in 1..Len(steps) :
        /\ GraphOrdered(steps[i].graph, 0, MaxKey + 1)
        /\ Cardinality(GraphKeySet(steps[i].graph)) = Len(GraphKeys(steps[i].graph))

\* C8: insert(k) with k already in the tree leaves the tree as it was (shape,
\* keys and height fields), takes no rotation, returns no steps and logs the
\* "already present; ignoring" line.
C8_DuplicateInsertNoOp ==
    (Inserting /\ call[2] \in TreeKeys(prev))
        => /\ root = prev
           /\ steps = <<>>
           /\ ~RotationLogged
           /\ HasLog(<<"Key already present; ignoring.", call[2]>>)

\* A key below the root of a tree of height 3 was inserted again.
C8_Witness ==
    /\ Inserting
    /\ call[2] \in TreeKeys(prev)
    /\ call[2] # Val(prev)
    /\ get_height(prev) = 3

\* C9: delete(k) with k not in the tree (the empty tree included) logs
\* "Key k not found.", returns no steps and leaves the tree as it was (shape,
\* keys, height fields, node count).
C9_DeleteAbsentNoOp ==
    (Deleting /\ call[2] \notin TreeKeys(prev))
        => /\ root = prev
           /\ count_nodes(root) = count_nodes(prev)
           /\ steps = <<>>
           /\ HasLog(<<"Key not found.", call[2]>>)

\* An absent key was deleted from a tree of height 3.
C9_Witness ==
    /\ Deleting
    /\ call[2] \notin TreeKeys(prev)
    /\ get_height(prev) = 3

\* C10: count_nodes() is the number of inserts that added a key less the
\* number of deletes that removed one, which is the number of keys stored; a
\* duplicate insert or a delete of an absent key leaves it as it was.
C10_CountIsCardinality ==
    /\ count_nodes(root) = net
    /\ net = Cardinality(keys)
    /\ (Inserting /\ call[2] \in TreeKeys(prev))
           => count_nodes(root) = count_nodes(prev)
    /\ (Deleting /\ call[2] \notin TreeKeys(prev))
           => count_nodes(root) = count_nodes(prev)

\* A key with one child was deleted from a tree of five keys.
C10_Witness ==
    /\ Deleting
    /\ \E k \in Keys :
           HasLog(<<"Node has no left child, replace with right child", k>>)
           /\ k \notin TreeKeys(root)
    /\ count_nodes(prev) = 5
    /\ net = 4

-----------------------------------------------------------------------------
\* The subtree of t whose root holds key k (Nil when k is not in t).
RECURSIVE Sub(_, _)
Sub(t, k) ==
    IF t = Nil \/ Val(t) = k THEN t
    ELSE IF k < Val(t) THEN Sub(Left(t), k) ELSE Sub(Right(t), k)

\* t with the key of the node holding k replaced by s, all else as it is.
RECURSIVE Rekey(_, _, _)
Rekey(t, k, s) ==
    IF t = Nil THEN Nil
    ELSE IF Val(t) = k THEN Node(s, Left(t), Right(t), Hgt(t))
    ELSE IF k < Val(t) THEN Node(Val(t), Rekey(Left(t), k, s), Right(t), Hgt(t))
    ELSE Node(Val(t), Left(t), Rekey(Right(t), k, s), Hgt(t))

\* The sequence of the keys on the way from the root of t to key k.
RECURSIVE PathTo(_, _)
PathTo(t, k) ==
    IF t = Nil THEN <<>>
    ELSE IF Val(t) = k THEN <<k>>
    ELSE IF k < Val(t) THEN <<Val(t)>> \o PathTo(Left(t), k)
    ELSE <<Val(t)>> \o PathTo(Right(t), k)

SetMin(S) == CHOOSE x \in S : \A y \in S : x <= y

\* The last call was a delete of a key that sat on a node with two children.
TwoChildDelete ==
    /\ Deleting
    /\ call[2] \in TreeKeys(prev)
    /\ Left(Sub(prev, call[2])) # Nil
    /\ Right(Sub(prev, call[2])) # Nil

\* The tree the calls insert(10), (20), (30), (40), (50), (25) build.
C11_Built ==
    insert(insert(insert(insert(insert(insert(Nil, 10).root, 20).root,
                                30).root, 40).root, 50).root, 25).root

\* C11: delete(k) of a key on a node with two children names the smallest key
\* of that node's right subtree as the successor, puts it on that node where
\* the node stands (the snapshot of the recursive delete shows the tree of
\* before with that one key replaced; without a rotation the successor is on
\* the path k was on), removes the successor's own node, and leaves the keys
\* of before minus k in a tree that is balanced, ordered and has true height
\* fields.  Deleting 30 from the tree built from 10, 20, 30, 40, 50, 25
\* leaves 10, 20, 25, 40, 50 in order with 40 at the root.
C11_TwoChildDelete ==
    /\ TwoChildDelete =>
         /\ HasLog(<<"In-order successor is",
                     SetMin(TreeKeys(Right(Sub(prev, call[2]))))>>)
         /\ Len(steps) >= 2
         /\ steps[1].desc = <<"Deleting", call[2]>>
         /\ steps[2].desc =
                <<"Deleting", SetMin(TreeKeys(Right(Sub(prev, call[2]))))>>
         /\ steps[2].graph =
                tree_to_graphviz(
                    Rekey(prev, call[2],
                          SetMin(TreeKeys(Right(Sub(prev, call[2]))))))
         /\ ~RotationLogged =>
                /\ Len(PathTo(root, SetMin(TreeKeys(Right(Sub(prev, call[2]))))))
                       = Len(PathTo(prev, call[2]))
                /\ Left(Sub(root, SetMin(TreeKeys(Right(Sub(prev, call[2]))))))
                       = Left(Sub(prev, call[2]))
         /\ InOrder(root) = SelectSeq(InOrder(prev), LAMBDA x : x # call[2])
         /\ count_nodes(root) = count_nodes(prev) - 1
         /\ Balanced(root) /\ Ordered(root) /\ HeightsCached(root)
    /\ InOrder(C11_Built) = <<10, 20, 25, 30, 40, 50>>
    /\ Left(Sub(C11_Built, 30)) # Nil /\ Right(Sub(C11_Built, 30)) # Nil
    /\ InOrder(delete(C11_Built, 30).root) = <<10, 20, 25, 40, 50>>
    /\ Val(delete(C11_Built, 30).root) = 40
    /\ Balanced(delete(C11_Built, 30).root)
    /\ HeightsCached(delete(C11_Built, 30).root)

\* A two-child delete whose successor lies two levels down and whose removal
\* makes the tree rotate.
C11_Witness ==
    /\ TwoChildDelete
    /\ RotationLogged
    /\ Len(steps) >= 4
    /\ SetMin(TreeKeys(Right(Sub(prev, call[2])))) # Val(Right(Sub(prev, call[2])))

-----------------------------------------------------------------------------
\* How many rotation-case lines the log of the last call holds.
RotationCount ==
    Cardinality({i \in 1..Len(logs) : logs[i][1] \in RotationLines})

\* The descriptions of the snapshots of the last call, in order.
StepDescs == [i \in 1..Len(steps) |-> steps[i].desc]

Leaf(k) == Node(k, Nil, Nil, 1)

\* The last call inserted a third key into a tree of two.  A tree of two
\* keys is what two inserts into the empty tree give: the first key at the
\* root and the second its only child.
ThirdInsert ==
    /\ Inserting
    /\ count_nodes(prev) = 2
    /\ call[2] \notin TreeKeys(prev)

\* C12: three distinct keys a < b < c inserted into the empty tree, in any
\* of the six orders, give the root b with left child a and right child c,
\* height field 2 at the root and 1 at both leaves.  The order a, b, c gets
\* there by one left rotation logged as the RR case, the order c, a, b by the
\* double rotation logged as the LR case (c, b, a by LL, a, c, b by RL, and
\* the two orders that start with b without a rotation).
C12_ThreeKeysAnyOrder ==
    ThirdInsert =>
        /\ \E a, b, c \in Keys :
              /\ a < b /\ b < c
              /\ {a, b, c} = TreeKeys(prev) \cup {call[2]}
              /\ root = Node(b, Leaf(a), Leaf(c), 2)
        /\ (Left(prev) = Nil /\ call[2] > Val(Right(prev))) =>
              /\ logs[Len(logs)] = <<"Left Rotation (RR) at node", Val(prev)>>
              /\ RotationCount = 1
              /\ StepDescs = << <<"Inserted", call[2]>>,
                                <<"RR case before rotation at", Val(prev)>>,
                                <<"After Left Rotation at", Val(root)>> >>
        /\ (Right(prev) = Nil /\ call[2] > Val(Left(prev))
                /\ call[2] < Val(prev)) =>
              /\ logs[Len(logs)] =
                     <<"Left-Right Rotation (LR) at node", Val(prev)>>
              /\ RotationCount = 1
              /\ StepDescs = << <<"Inserted", call[2]>>,
                                <<"LR case before rotations at", Val(prev)>>,
                                <<"After left-rotation of left child of", Val(prev)>>,
                                <<"After right-rotation at", Val(root)>> >>
        /\ (Right(prev) = Nil /\ call[2] < Val(Left(prev))) =>
              /\ logs[Len(logs)] = <<"Right Rotation (LL) at node", Val(prev)>>
              /\ RotationCount = 1
        /\ (Left(prev) = Nil /\ call[2] < Val(Right(prev))
                /\ call[2] > Val(prev)) =>
              /\ logs[Len(logs)] =
                     <<"Right-Left Rotation (RL) at node", Val(prev)>>
              /\ RotationCount = 1
        /\ ((Left(prev) = Nil /\ call[2] < Val(prev))
                \/ (Right(prev) = Nil /\ call[2] > Val(prev))) =>
              /\ RotationCount = 0
              /\ StepDescs = << <<"Inserted", call[2]>> >>

\* The third of three ascending keys has just been inserted.
C12_Witness ==
    /\ ThirdInsert
    /\ Left(prev) = Nil
    /\ call[2] > Val(Right(prev))
    /\ Val(root) = Val(Right(prev))

-----------------------------------------------------------------------------
\* Lines 99-133 of _insert, read for what they require: with node after
\* update_height, a case test reads node.left.value (node.right.value) only
\* past "balance > 1" ("balance < -1"), right_rotate(node) needs node.left,
\* left_rotate(node) needs node.right, and the first rotation of a double
\* case needs node.left.right (node.right.left).
InsertCaseSafe(node, key) ==
    /\ get_balance(node) > 1 =>
          /\ Left(node) # Nil
          /\ (key > Val(Left(node)) => Right(Left(node)) # Nil)
    /\ get_balance(node) < -1 =>
          /\ Right(node) # Nil
          /\ (key < Val(Right(node)) => Left(Right(node)) # Nil)

\* Lines 196-229 of _delete, read the same way.
DeleteCaseSafe(node) ==
    /\ get_balance(node) > 1 =>
          /\ Left(node) # Nil
          /\ (get_balance(Left(node)) < 0 => Right(Left(node)) # Nil)
    /\ get_balance(node) < -1 =>
          /\ Right(node) # Nil
          /\ (get_balance(Right(node)) > 0 => Left(Right(node)) # Nil)

\* insert(key) on the tree at node meets every requirement, at every level
\* of the path, deepest first as the calls return.
RECURSIVE InsertSafe(_, _)
InsertSafe(node, key) ==
    IF node = Nil \/ key = Val(node) THEN TRUE
    ELSE IF key < Val(node) THEN
        /\ InsertSafe(Left(node), key)
        /\ InsertCaseSafe(
               update_height(SetLeft(node, _insert(Left(node), key, <<>>).ret)),
               key)
    ELSE
        /\ InsertSafe(Right(node), key)
        /\ InsertCaseSafe(
               update_height(SetRight(node, _insert(Right(node), key, <<>>).ret)),
               key)

\* delete(key) on the tree at node meets every requirement; over is the
\* node of a two-child delete with the successor's key written on it.
RECURSIVE DeleteSafe(_, _)
DeleteSafe(node, key) ==
    IF node = Nil THEN TRUE
    ELSE IF key < Val(node) THEN
        /\ DeleteSafe(Left(node), key)
        /\ DeleteCaseSafe(
               update_height(SetLeft(node, _delete(Left(node), key, <<>>).ret)))
    ELSE IF key > Val(node) THEN
        /\ DeleteSafe(Right(node), key)
        /\ DeleteCaseSafe(
               update_height(SetRight(node, _delete(Right(node), key, <<>>).ret)))
    ELSE IF Left(node) = Nil \/ Right(node) = Nil THEN TRUE
    ELSE LET over == Overwrite(node, _min_value_node(Right(node))).ret
         IN  /\ DeleteSafe(Right(over), Val(over))
             /\ DeleteCaseSafe(
                    update_height(
                        SetRight(over, _delete(Right(over), Val(over), <<>>).ret)))

\* C15: in every tree reachable from the empty one, every insert and every
\* delete the next call can make finds the child each of its rotations and
\* case tests reads: right_rotate(y) runs only with y.left present,
\* left_rotate(x) only with x.right present, and node.left.value and
\* node.right.value are read only of a child that is there.  So no call
\* raises after it has changed part of the tree.
C15_RotationsHaveTheirChild ==
    \A k \in Keys : InsertSafe(root, k) /\ DeleteSafe(root, k)

\* A double rotation has just run in a delete that left five keys or more,
\* so the requirements of both of its rotations were put to the test.
C15_Witness ==
    /\ \E k \in Keys : HasLog(<<"Left-Right Rotation (LR) at node", k>>)
    /\ Deleting
    /\ count_nodes(root) >= 5

-----------------------------------------------------------------------------
\* The positions of the rotation-case lines in the log of the last call.
RotationAt == {i \in 1..Len(logs) : logs[i][1] \in RotationLines}

\* C16: one insert(k) on a tree that meets the AVL invariants takes a
\* rotation case at no more than one node of the insertion path: its log
\* holds at most one rotation-case line, the levels above that node log
\* their "At node" line only, and its steps hold the snapshots of one case
\* at most.
C16_InsertRotatesOnce ==
    Inserting =>
        /\ Cardinality(RotationAt) <= 1
        /\ \A i \in RotationAt : \A j \in (i + 1)..Len(logs) :
               logs[j][1] = "At node" /\ logs[j][4] \in {-1, 0, 1}
        /\ Cardinality({i \in 1..Len(steps) : steps[i].desc[1] \in AfterDescs})
               <= 2
        /\ Len(steps) <= 4

\* An insert rotated at a node below the root of a tree that it left with
\* seven keys, so a level above the rotation was there to rotate again.
C16_Witness ==
    /\ Inserting
    /\ \E i \in RotationAt : i + 1 <= Len(logs)
    /\ count_nodes(root) >= 7

-----------------------------------------------------------------------------
\* Every subtree of t, t itself included.
RECURSIVE Subtrees(_)
Subtrees(t) ==
    IF t = Nil THEN {} ELSE {t} \cup Subtrees(Left(t)) \cup Subtrees(Right(t))

\* The subtrees a rotation is tried on: those of the tree, which are
\* balanced, and those a rotation of one of them gives, which are leaning
\* as the subtrees are that _insert and _delete rotate.
RotationInputs ==
    Subtrees(root)
        \cup {right_rotate(y).top : y \in {s \in Subtrees(root) : Left(s) # Nil}}
        \cup {left_rotate(x).top : x \in {s \in Subtrees(root) : Right(s) # Nil}}

HeightFromChildren(n) ==
    Hgt(n) = 1 + Max(get_height(Left(n)), get_height(Right(n)))

\* right_rotate(y) with x = y.left: x comes out on top with its left subtree
\* as it was, y below it on the right with x's old right subtree as its left
\* and its own right subtree as it was.
RightRotateKeeps(y) ==
    /\ InOrder(right_rotate(y).top) = InOrder(y)
    /\ count_nodes(right_rotate(y).top) = count_nodes(y)
    /\ Val(right_rotate(y).top) = Val(Left(y))
    /\ Left(right_rotate(y).top) = Left(Left(y))
    /\ Val(Right(right_rotate(y).top)) = Val(y)
    /\ Left(Right(right_rotate(y).top)) = Right(Left(y))
    /\ Right(Right(right_rotate(y).top)) = Right(y)
    /\ right_rotate(y).old = Right(right_rotate(y).top)
    /\ HeightFromChildren(Right(right_rotate(y).top))
    /\ HeightFromChildren(right_rotate(y).top)

\* left_rotate(x) with y = x.right, the mirror image.
LeftRotateKeeps(x) ==
    /\ InOrder(left_rotate(x).top) = InOrder(x)
    /\ count_nodes(left_rotate(x).top) = count_nodes(x)
    /\ Val(left_rotate(x).top) = Val(Right(x))
    /\ Right(left_rotate(x).top) = Right(Right(x))
    /\ Val(Left(left_rotate(x).top)) = Val(x)
    /\ Right(Left(left_rotate(x).top)) = Left(Right(x))
    /\ Left(Left(left_rotate(x).top)) = Left(x)
    /\ left_rotate(x).old = Left(left_rotate(x).top)
    /\ HeightFromChildren(Left(left_rotate(x).top))
    /\ HeightFromChildren(left_rotate(x).top)

\* C18: right_rotate(y) on a subtree with y.left present, and left_rotate(x)
\* on one with x.right present, return a subtree with the same keys in the
\* same in-order sequence and the same number of nodes, in which only the two
\* nodes rotated have other children or another height field than before
\* (the three subtrees hanging off them are carried over whole), and in which
\* the height field of each of those two is one more than the larger of its
\* children's height fields.
C18_RotationKeepsOrderAndNodes ==
    \A t \in RotationInputs :
        /\ Left(t) # Nil => RightRotateKeeps(t)
        /\ Right(t) # Nil => LeftRotateKeeps(t)

\* The tree has a node whose left child has a right subtree, and one whose
\* right child has a left subtree, so both rotations move a subtree across;
\* and the last call itself rotated.
C18_Witness ==
    /\ RotationLogged
    /\ \E y \in Subtrees(root) :
           Left(y) # Nil /\ Right(Left(y)) # Nil /\ Right(y) # Nil
    /\ \E x \in Subtrees(root) :
           Right(x) # Nil /\ Left(Right(x)) # Nil /\ Left(x) # Nil

-----------------------------------------------------------------------------
\* The key of the parent of the node holding k in t (0 for the root, or
\* when k is not in t).
RECURSIVE ParentKey(_, _)
ParentKey(t, k) ==
    IF t = Nil \/ Val(t) = k THEN 0
    ELSE IF k < Val(t)
         THEN (IF Left(t) # Nil /\ Val(Left(t)) = k THEN Val(t)
               ELSE ParentKey(Left(t), k))
         ELSE (IF Right(t) # Nil /\ Val(Right(t)) = k THEN Val(t)
               ELSE ParentKey(Right(t), k))

\* The rotation-case lines of the log of the last call, in order.
RotationLog == SelectSeq(logs, LAMBDA l : l[1] \in RotationLines)

\* The descriptions of the snapshots of the last call that belong to a
\* rotation, in order: all but "Inserted k" and "Deleting k".
RotationDescs ==
    SelectSeq(StepDescs, LAMBDA d : d[1] \notin {"Inserted", "Deleting"})

\* The snapshot descriptions that go with one rotation-case line: the one
\* taken before, naming the case and node v, and the one or two taken after,
\* the last of them naming top.  word is "case" in insert, "rebalance" in
\* delete.
CaseDescs(line, v, top) ==
    CASE line = "Right Rotation (LL) at node" ->
            << <<IF Inserting THEN "LL case before rotation at"
                              ELSE "LL rebalance before at", v>>,
               <<"After Right Rotation at", top>> >>
      [] line = "Left Rotation (RR) at node" ->
            << <<IF Inserting THEN "RR case before rotation at"
                              ELSE "RR rebalance before at", v>>,
               <<"After Left Rotation at", top>> >>
      [] line = "Left-Right Rotation (LR) at node" ->
            << <<IF Inserting THEN "LR case before rotations at"
                              ELSE "LR rebalance before at", v>>,
               <<"After left-rotation of left child of", v>>,
               <<"After right-rotation at", top>> >>
      [] line = "Right-Left Rotation (RL) at node" ->
            << <<IF Inserting THEN "RL case before rotations at"
                              ELSE "RL rebalance before at", v>>,
               <<"After right-rotation of right child of", v>>,
               <<"After left-rotation at", top>> >>

\* The descriptions the rotation-case lines rl call for, one group a line;
\* the node that came out on top of a rotation at v is the parent v has in
\* the tree the call leaves.
RECURSIVE DescsFor(_)
DescsFor(rl) ==
    IF rl = <<>> THEN <<>>
    ELSE CaseDescs(rl[1][1], rl[1][2], ParentKey(root, rl[1][2]))
             \o DescsFor(Tail(rl))

\* C19: in the result of an insert or a delete every rebalancing is one log
\* line naming its case and the key of the unbalanced node, with a snapshot
\* taken before that names the same case and node and, after it in the
\* steps, a last snapshot taken after that names the key of the node that
\* came out on top; the steps hold no rotation snapshot that no log line
\* calls for, and every rotation-case line has its snapshots.
C19_RotationLoggedAndSnapshotted ==
    (Inserting \/ Deleting) =>
        /\ RotationDescs = DescsFor(RotationLog)
        /\ \A i \in 1..Len(RotationLog) :
               /\ RotationLog[i][2] \in TreeKeys(root)
               /\ ParentKey(root, RotationLog[i][2]) \in TreeKeys(root)

\* A delete took a double rotation below the root.
C19_Witness ==
    /\ Deleting
    /\ Len(RotationLog) = 1
    /\ RotationLog[1][1] = "Right-Left Rotation (RL) at node"
    /\ ParentKey(root, ParentKey(root, RotationLog[1][2])) # 0
    /\ Len(RotationDescs) = 3

-----------------------------------------------------------------------------
(* A second specification, for deletes that rebalance at two levels: the   *)
(* smallest tree in which one does has twelve keys.  A tree of twelve is   *)
(* built by inserts in one of three orders and then pruned by up to        *)
(* MaxPrune deletes of any keys.                                           *)

MaxPrune == 4

\* Level by level, the leanest tree of height 5 that leans left: no insert
\* of this order rotates.
FibOrder == <<8, 5, 11, 3, 7, 10, 12, 2, 4, 6, 9, 1>>

\* Its mirror image, leaning right.
MirrorOrder == <<5, 8, 2, 10, 6, 3, 1, 11, 9, 7, 4, 12>>

\* The same keys in ascending order: every second insert rotates.
AscendingOrder == [i \in 1..Len(FibOrder) |-> i]

BuildOrders == {FibOrder, MirrorOrder, AscendingOrder}

DeepKeys == 1..Len(FibOrder)

\* The next insert of build order s, while no delete has been made.
Build(s) ==
    /\ call[1] # "delete"
    /\ net < Len(s)
    /\ keys = {s[i] : i \in 1..net}
    /\ Insert(s[net + 1])

\* A delete from the tree once built.
Prune(k) ==
    /\ net = Len(FibOrder) \/ call[1] = "delete"
    /\ net > Len(FibOrder) - MaxPrune
    /\ Delete(k)

DeepNext ==
    \/ \E s \in BuildOrders : Build(s)
    \/ \E k \in DeepKeys : Prune(k)

DeepSpec == Init /\ [][DeepNext]_vars

\* C17: when one delete rebalances at more than one node of the deletion
\* path, its rotation-case lines come bottom-up: the node of an earlier line
\* lies below the node of every later line in the tree the call leaves;
\* each line directly follows the "At node" line of its own level, which
\* shows a difference of two; and the steps hold, in the order of the lines,
\* each level's own snapshot taken before and its own snapshot or snapshots
\* taken after.
C17_DeleteRebalancesBottomUp ==
    (Deleting /\ Len(RotationLog) >= 2) =>
        /\ \A i, j \in 1..Len(RotationLog) :
               i < j => /\ RotationLog[i][2] # RotationLog[j][2]
                        /\ RotationLog[i][2]
                               \in TreeKeys(Sub(root, RotationLog[j][2]))
        /\ \A i \in RotationAt :
               /\ i > 1
               /\ logs[i - 1][1] = "At node"
               /\ logs[i - 1][2] = logs[i][2]
               /\ logs[i - 1][4] \in {-2, 2}
        /\ RotationDescs = DescsFor(RotationLog)
        /\ Len(RotationDescs) >= 2 * Len(RotationLog)

\* A delete of a key on a node with two children rotated at two levels.
C17_Witness ==
    /\ TwoChildDelete
    /\ Len(RotationLog) = 2
    /\ count_nodes(root) = Len(FibOrder) - 1

-----------------------------------------------------------------------------
(* app.py: the session.  Streamlit runs the script from top to bottom once *)
(* for every user event (a click, a toggle of the checkbox, a new text in  *)
(* the input) and once more for every st.rerun().  A button reads True     *)
(* only in the pass its click started; the checkbox and the text input     *)
(* keep their value.  One pass up to the rerun point of line 223 is one    *)
(* step, the rerun point is another.  Here root and last_action are the    *)
(* tree in st.session_state.avl, steps is st.session_state.steps, logs     *)
(* holds the lines the pass of the event in hand appended to               *)
(* st.session_state.logs (the list itself only grows and is only           *)
(* displayed), call names the user event in hand and prev is the tree as   *)
(* that event found it.                                                    *)

MaxAppKey == 3

AppKeys == 1..MaxAppKey

\* What the text input can hold: <<k>> is a text int() reads as k, <<>> a
\* text int() raises on.
Texts == {<<k>> : k \in AppKeys} \cup {<<>>}

\* Reruns counted for one user event, at most.
MaxReruns == 2

\* Lines 192-197: the guard against an out-of-range step index.
ClampIndex(step_idx, total) ==
    IF step_idx < 0 THEN 0
    ELSE IF step_idx >= total THEN Max(0, total - 1)
    ELSE step_idx

\* The two playback buttons as a bug would have it: the tests of step_idx
\* against the ends of the list are left out.
Moved_unguarded(step_idx, total, prev_btn, next_btn) ==
    IF next_btn THEN step_idx + 1
    ELSE IF prev_btn THEN step_idx - 1
    ELSE step_idx

\* Lines 210-216, with step_idx already guarded.
Moved(step_idx, total, prev_btn, next_btn) ==
    IF next_btn /\ step_idx < total - 1 THEN step_idx + 1
    ELSE IF prev_btn /\ step_idx > 0 THEN step_idx - 1
    ELSE step_idx

\* Lines 186-216: st.session_state.step_index after the playback block.
PlaybackIndex(mode, st, idx, prev_btn, next_btn) ==
    IF mode /\ st # <<>>
    THEN Moved(ClampIndex(idx, Len(st)), Len(st), prev_btn, next_btn)
    ELSE idx

\* Lines 210-216: whether the playback block sets should_rerun.
PlaybackFlag(mode, st, idx, prev_btn, next_btn) ==
    /\ mode
    /\ st # <<>>
    /\ \/ prev_btn /\ ClampIndex(idx, Len(st)) > 0
       \/ next_btn /\ ClampIndex(idx, Len(st)) < Len(st) - 1

\* The pass as a bug would have it: a checkbox that differs sets the flag,
\* but st.session_state.step_mode is not brought in line with it.
Pass_nosync(cb, st, idx, handled, prev_btn, next_btn) ==
    /\ step_mode_checkbox' = cb
    /\ step_mode' = step_mode
    /\ steps' = st
    /\ step_index' = PlaybackIndex(step_mode, st, idx, prev_btn, next_btn)
    /\ should_rerun' = \/ should_rerun
                       \/ cb # step_mode
                       \/ handled
                       \/ PlaybackFlag(step_mode, st, idx, prev_btn, next_btn)
    /\ pc' = "end"

\* The pass outside of the button handlers: the checkbox reads cb (lines
\* 67-76), the handlers leave the steps st and the index idx and have set
\* the flag or not (handled), and the playback block runs (lines 186-216).
Pass(cb, st, idx, handled, prev_btn, next_btn) ==
    /\ step_mode_checkbox' = cb
    /\ step_mode' = cb
    /\ steps' = st
    /\ step_index' = PlaybackIndex(cb, st, idx, prev_btn, next_btn)
    /\ should_rerun' = \/ should_rerun
                       \/ cb # step_mode
                       \/ handled
                       \/ PlaybackFlag(cb, st, idx, prev_btn, next_btn)
    /\ pc' = "end"

\* A pass started by a user event.
Event(name) ==
    /\ pc = "idle"
    /\ call' = name
    /\ prev' = root
    /\ reruns' = 0

\* Lines 142-152 and 159-166: the result r of avl.insert or avl.delete is
\* logged and, in step mode, pushed (push_steps, lines 129-131).
Applied(r) ==
    /\ root' = r.root
    /\ logs' = r.logs
    /\ found' = FALSE
    /\ Pass(step_mode_checkbox,
            IF step_mode_checkbox THEN r.steps ELSE steps,
            IF step_mode_checkbox THEN 0 ELSE step_index,
            TRUE, FALSE, FALSE)

\* Lines 139-142, 155-158, 169-172: int(value) raised; st.error only.
Rejected ==
    /\ logs' = <<>>
    /\ found' = FALSE
    /\ Pass(step_mode_checkbox, steps, step_index, FALSE, FALSE, FALSE)
    /\ UNCHANGED <<root, last_action, keys, net>>

ClickInsert(text) ==
    IF text = <<>> THEN Event(<<"rejected", "insert">>) /\ Rejected
    ELSE /\ Event(<<"insert", text[1]>>)
         /\ Applied(insert(root, text[1]))
         /\ last_action' = <<"Insert", text[1]>>
         /\ keys' = keys \cup {text[1]}
         /\ net' = IF text[1] \in keys THEN net ELSE net + 1

ClickDelete(text) ==
    IF text = <<>> THEN Event(<<"rejected", "delete">>) /\ Rejected
    ELSE /\ Event(<<"delete", text[1]>>)
         /\ Applied(delete(root, text[1]))
         /\ last_action' = <<"Delete", text[1]>>
         /\ keys' = keys \ {text[1]}
         /\ net' = IF text[1] \in keys THEN net - 1 ELSE net

\* Lines 168-177.
ClickSearch(text) ==
    IF text = <<>> THEN Event(<<"rejected", "search">>) /\ Rejected
    ELSE /\ Event(<<"search", text[1]>>)
         /\ found' = search(root, text[1])
         /\ logs' = <<<<"Search", text[1], search(root, text[1])>>>>
         /\ Pass(step_mode_checkbox, steps, step_index, TRUE, FALSE, FALSE)
         /\ UNCHANGED <<root, last_action, keys, net>>

\* Lines 15-17 of avl.py: the fields of AVLTree().
NewTree == [root |-> Nil, last_action |-> <<>>]

\* Lines 179-182, with tree the value of AVLTree().
Cleared(tree) ==
    /\ root' = tree.root
    /\ last_action' = tree.last_action
    /\ logs' = <<<<"Cleared tree">>>>
    /\ found' = FALSE
    /\ keys' = {}
    /\ net' = 0
    /\ Pass(step_mode_checkbox, steps, step_index, TRUE, FALSE, FALSE)

\* The clear handler as a bug would have it: the session keeps the tree it
\* has.
ClickClear_keep ==
    Event(<<"clear">>) /\ Cleared([root |-> root, last_action |-> last_action])

ClickClear == Event(<<"clear">>) /\ Cleared(NewTree)

\* The pass of an event that presses none of the four buttons above: the
\* checkbox reads cb, and one of the playback buttons may read True.
Untouched(cb, prev_btn, next_btn) ==
    /\ logs' = <<>>
    /\ found' = FALSE
    /\ Pass(cb, steps, step_index, FALSE, prev_btn, next_btn)
    /\ UNCHANGED <<root, last_action, keys, net>>

\* The user ticks or unticks "Step-by-step educational mode".
ToggleStepMode ==
    Event(<<"toggle">>) /\ Untouched(~step_mode_checkbox, FALSE, FALSE)

\* The playback buttons are on the page when the last pass rendered them.
ClickPrevious ==
    /\ step_mode /\ steps # <<>>
    /\ Event(<<"previous">>)
    /\ Untouched(step_mode_checkbox, TRUE, FALSE)

ClickNext ==
    /\ step_mode /\ steps # <<>>
    /\ Event(<<"next">>)
    /\ Untouched(step_mode_checkbox, FALSE, TRUE)

\* The user changes the text of the input: a pass with no button pressed.
TypeValue == Event(<<"type">>) /\ Untouched(step_mode_checkbox, FALSE, FALSE)

\* Lines 223-226 with the flag set: it is reset and st.rerun() is called.
Rerun ==
    /\ pc = "end"
    /\ should_rerun
    /\ reruns < MaxReruns
    /\ should_rerun' = FALSE
    /\ pc' = "rerun"
    /\ reruns' = reruns + 1
    /\ UNCHANGED <<root, last_action, logs, steps, found, call, prev, keys,
                   net, step_mode, step_mode_checkbox, step_index>>

\* Line 223 with the flag not set: the pass is over and the session is at
\* rest, no event in hand.
Finish ==
    /\ pc = "end"
    /\ ~should_rerun
    /\ pc' = "idle"
    /\ call' = <<"rest">>
    /\ prev' = root
    /\ logs' = <<>>
    /\ found' = FALSE
    /\ reruns' = 0
    /\ UNCHANGED <<root, last_action, steps, keys, net, step_mode,
                   step_mode_checkbox, step_index, should_rerun>>

\* The pass st.rerun() starts: no button reads True.
RerunPass ==
    /\ pc = "rerun"
    /\ Pass(step_mode_checkbox, steps, step_index, FALSE, FALSE, FALSE)
    /\ UNCHANGED <<root, last_action, logs, found, call, prev, keys, net,
                   reruns>>

AppNext ==
    \/ \E text \in Texts : ClickInsert(text)
    \/ \E text \in Texts : ClickDelete(text)
    \/ \E text \in Texts : ClickSearch(text)
    \/ ClickClear
    \/ ToggleStepMode
    \/ ClickPrevious
    \/ ClickNext
    \/ TypeValue
    \/ Rerun
    \/ Finish
    \/ RerunPass

AppSpec == Init /\ [][AppNext]_vars

\* The script, once started, runs to its end, and a rerun asked for is made.
AppLive ==
    /\ Init
    /\ [][AppNext]_vars
    /\ WF_vars(Rerun)
    /\ WF_vars(Finish)
    /\ WF_vars(RerunPass)

-----------------------------------------------------------------------------
\* The events whose handler sets should_rerun whenever it runs.
FlaggingEvents == {"insert", "delete", "search", "clear", "toggle"}

\* C20: a user event that sets should_rerun (an insert, delete or search of
\* an integer, a clear, a toggle of step mode, a Previous or Next that moves
\* the step index) causes exactly one rerun, and an event that does not set
\* it causes none; the flag is false again when the rerun is made; the pass
\* of the rerun does not set it; and the session always comes back to rest
\* with the flag false, so there is no loop of reruns.
C20_OneRerunPerEvent ==
    /\ [](reruns <= 1)
    /\ []((pc = "end" /\ reruns = 0 /\ call[1] \in FlaggingEvents)
              => should_rerun)
    /\ []((pc = "end" /\ reruns = 0 /\ call[1] \in {"rejected", "type"})
              => ~should_rerun)
    /\ [][(pc = "idle" /\ pc' = "end" /\ call'[1] \in {"previous", "next"})
              => (should_rerun' <=> step_index' # step_index)]_vars
    /\ [][(pc = "end" /\ should_rerun)
              => (pc' = "rerun" /\ ~should_rerun' /\ reruns' = reruns + 1)]_vars
    /\ [](pc = "rerun" => ~should_rerun)
    /\ []((pc = "end" /\ reruns > 0) => ~should_rerun)
    /\ [][(pc = "end" /\ pc' = "idle")
              => (reruns = IF call[1] \in FlaggingEvents THEN 1 ELSE
                           IF call[1] \in {"rejected", "type"} THEN 0 ELSE reruns)]_vars
    /\ [](pc = "idle" => ~should_rerun)
    /\ []<>(pc = "idle" /\ ~should_rerun)

\* The pass of the one rerun that a Next that moved the index caused has
\* come to its end with the flag false.
C20_Witness ==
    /\ pc = "end"
    /\ call = <<"next">>
    /\ reruns = 1
    /\ step_index > 0
    /\ ~should_rerun

-----------------------------------------------------------------------------
C14_ClearGivesFreshTree ==
    /\ call[1] = "clear" =>
          /\ count_nodes(root) = 0
          /\ get_height(root) = 0
          /\ [root |-> root, last_action |-> last_action] = NewTree
          /\ \A k \in AppKeys : /\ insert(root, k) = insert(Nil, k)
                               /\ delete(root, k) = delete(Nil, k)
                               /\ ~search(root, k)
    /\ TreeKeys(root) = keys
    /\ count_nodes(root) = net

\* A tree of three keys has just been cleared.
C14_Witness ==
    /\ call[1] = "clear"
    /\ count_nodes(prev) = 3
    /\ root = Nil

-----------------------------------------------------------------------------
\* C21: in the session, whatever inserts, deletes, clears, toggles of step
\* mode and Previous / Next clicks were made, st.session_state.step_index is
\* at least 0 and, whenever st.session_state.steps is not empty, less than
\* its length; an insert or delete in step mode stores the steps of its
\* result and sets step_index to 0; a Previous at the first step and a Next
\* at the last step leave step_index as it is.
C21_StepIndexInRange ==
    /\ [](step_index >= 0)
    /\ [](steps # <<>> => step_index < Len(steps))
    /\ [][(pc = "idle" /\ call'[1] = "insert" /\ step_mode')
              => (steps' = insert(root, call'[2]).steps /\ step_index' = 0)]_vars
    /\ [][(pc = "idle" /\ call'[1] = "delete" /\ step_mode')
              => (steps' = delete(root, call'[2]).steps /\ step_index' = 0)]_vars
    /\ [][(pc = "idle" /\ call'[1] = "previous" /\ step_index = 0)
              => step_index' = step_index]_vars
    /\ [][(pc = "idle" /\ call'[1] = "next" /\ step_index = Len(steps) - 1)
              => step_index' = step_index]_vars

\* A Next at the last of four steps has left the index on it: the pass has
\* come to its end without asking for a rerun.
C21_Witness ==
    /\ pc = "end"
    /\ call = <<"next">>
    /\ reruns = 0
    /\ ~should_rerun
    /\ Len(steps) = 4
    /\ step_index = Len(steps) - 1

====
